---- MODULE Spec2Model ----
(***************************************************************************)
(* Model of aws_usage_cost.py: a Rocketry task `main` that, on every tick, *)
(* fetches the month-to-date AWS cost, extrapolates it linearly to the end *)
(* of the month, alerts three channels when the projection exceeds         *)
(* THRESHOLD and finally pings a health-check URL.                         *)
(*                                                                         *)
(* Money is counted in cents.  A quotient is kept exact, as a reduced      *)
(* fraction <<numerator, denominator>> with a positive denominator, so a   *)
(* projection is compared with the threshold without rounding.  A date is  *)
(* a triple <<year, month, day>>.  The wall clock is a UTC date and an     *)
(* hour of the day; the host's local time is UTC plus tzOffset hours.      *)
(***************************************************************************)
EXTENDS Integers, Sequences, FiniteSets

\* ------------------------------------------------------------- bounds

\* Number of times the scheduler re-runs main after the first tick; each
\* tick is one day after the previous one.
MaxTicks == 115

\* The UTC date of the first tick.
StartDate == <<2023, 11, 8>>

\* Hours of the day (UTC) at which the task may fire.
Hours == {0, 23}

\* Offsets of the host's local time zone from UTC, in hours.
TzOffsets == {-8, 0, 9}

\* Hours that may pass between the clock read of get_current_costs and the
\* one of get_end_of_month_projection (the billing call lies in between).
Elapsed == {0, 1}

\* Values of the THRESHOLD environment variable, in cents.
Thresholds == {-100, 0, 186000}

\* Amounts the billing API may report, in cents.
Amounts == {0, 62000}

\* What one HTTP request can end in.
Outcomes == {"ok", "network_error", "http_error", "timeout"}

\* What the Cost Explorer call can end in.
ApiOutcomes == {"ok", "error"}

\* What the health-check GET can end in: requests.get raises a
\* RequestException on a network error or a timeout; a non-2xx answer is
\* not an error here, there is no raise_for_status().
PingOutcomes == {"ok", "RequestException"}

\* ------------------------------------------------------------- state

VARIABLES
    THRESHOLD,          \* float(os.environ["THRESHOLD"]), fixed at start-up
    tzOffset,           \* the host's time zone, fixed at start-up
    clock,              \* [date, hour]: UTC time at which the tick fires
    tick,               \* number of the current tick
    pc,                 \* position of main within the tick
    start,              \* TimePeriod.Start of the query issued
    end,                \* TimePeriod.End of the query issued
    fetchFailed,        \* get_cost_and_usage raised in this tick
    current_cost,       \* main's current_cost, in cents
    current_date,       \* get_end_of_month_projection's current_date
    projected_cost,     \* fraction
    projected_spending, \* fraction
    discord_response,   \* Unsent or what send_discord_notification returned
    gotify_response,
    ntfy_response,
    result,             \* return value of check_threshold_exceeded
    propagated,         \* an exception left main in this tick
    ping,               \* how the health-check GET of this tick ended
    prev_ping,          \* how the one of the previous tick ended
    trace               \* what the tick did so far, in order

vars == <<THRESHOLD, tzOffset, clock, tick, pc, start, end, fetchFailed,
          current_cost, current_date, projected_cost, projected_spending,
          discord_response, gotify_response, ntfy_response, result,
          propagated, ping, prev_ping, trace>>

\* ---------------------------------------------------------- calendar

IsLeap(y) == (y % 4 = 0 /\ y % 100 # 0) \/ y % 400 = 0

\* calendar.monthrange(year, month)[1]
monthrange(y, m) ==
    IF m = 2 THEN (IF IsLeap(y) THEN 29 ELSE 28)
    ELSE IF m \in {4, 6, 9, 11} THEN 30 ELSE 31

NextDay(d) ==
    IF d[3] < monthrange(d[1], d[2]) THEN <<d[1], d[2], d[3] + 1>>
    ELSE IF d[2] < 12 THEN <<d[1], d[2] + 1, 1>>
    ELSE <<d[1] + 1, 1, 1>>

PrevDay(d) ==
    IF d[3] > 1 THEN <<d[1], d[2], d[3] - 1>>
    ELSE IF d[2] > 1 THEN <<d[1], d[2] - 1, monthrange(d[1], d[2] - 1)>>
    ELSE <<d[1] - 1, 12, 31>>

RECURSIVE AddDays(_, _)
\* date + timedelta(days=n)
AddDays(d, n) ==
    IF n = 0 THEN d
    ELSE IF n > 0 THEN AddDays(NextDay(d), n - 1)
    ELSE AddDays(PrevDay(d), n + 1)

\* date comparison a >= b
DateGE(a, b) ==
    \/ a[1] > b[1]
    \/ a[1] = b[1] /\ a[2] > b[2]
    \/ a[1] = b[1] /\ a[2] = b[2] /\ a[3] >= b[3]

\* datetime.now(timezone.utc).date()
UtcToday == clock.date

\* datetime.now().date(), dt hours after the tick fired: the naive local
\* time of the host.
LocalToday(dt) ==
    LET h == clock.hour + dt + tzOffset
    IN  IF h < 0 THEN AddDays(clock.date, -1)
        ELSE IF h >= 24 THEN AddDays(clock.date, 1)
        ELSE clock.date

\* -------------------------------------------------------- arithmetic

RECURSIVE Gcd(_, _)
Gcd(a, b) == IF b = 0 THEN a ELSE Gcd(b, a % b)

Abs(x) == IF x < 0 THEN -x ELSE x

\* n/d in lowest terms, d > 0
Frac(n, d) ==
    LET g == Gcd(Abs(n), d) IN <<n \div g, d \div g>>

\* x / k for a fraction x and an integer k >= 1
FracDiv(x, k) == Frac(x[1], x[2] * k)

\* x * k for a fraction x and an integer k >= 0
FracMul(x, k) == Frac(x[1] * k, x[2])

\* x <= k for a fraction x and an integer k
FracLE(x, k) == x[1] <= k * x[2]

\* ------------------------------------------------- get_current_costs

\* start = datetime(end.year, end.month, 1).date()
FirstOfMonth(today) == <<today[1], today[2], 1>>

NeedsWidening_strict(s, e) == DateGE(s, e) /\ s # e

\* if start >= end
NeedsWidening(s, e) == DateGE(s, e)

\* end after "if start >= end: end = end + timedelta(days=1)"
QueryEnd(s, today) == IF NeedsWidening(s, today) THEN AddDays(today, 1) ELSE today

get_cost_and_usage_keeps_amount(api, amount) ==
    [failed |-> api = "error", cost |-> amount, raised |-> FALSE]

get_cost_and_usage_unguarded(api, amount) ==
    IF api = "error"
    THEN [failed |-> TRUE, cost |-> 0, raised |-> TRUE]
    ELSE [failed |-> FALSE, cost |-> amount, raised |-> FALSE]

\* The try/except around client.get_cost_and_usage and the return value:
\* any exception is logged and 0.0 is returned, nothing is raised.
get_cost_and_usage(api, amount) ==
    IF api = "error"
    THEN [failed |-> TRUE, cost |-> 0, raised |-> FALSE]
    ELSE [failed |-> FALSE, cost |-> amount, raised |-> FALSE]

\* An exception that leaves main ends the tick: the scheduler logs the
\* failed run and waits for the next one.
Abort ==
    /\ pc' = "done"
    /\ propagated' = TRUE

\* main, line 154: current_cost = get_current_costs()
GetCurrentCosts ==
    /\ pc = "start"
    /\ \E api \in ApiOutcomes, amount \in Amounts :
          LET r == get_cost_and_usage(api, amount)
          IN  /\ fetchFailed' = r.failed
              /\ current_cost' = r.cost
              /\ IF r.raised
                 THEN Abort
                 ELSE pc' = "fetched" /\ propagated' = propagated
    /\ start' = FirstOfMonth(UtcToday)
    /\ end' = QueryEnd(FirstOfMonth(UtcToday), UtcToday)
    /\ trace' = Append(trace, "fetch")
    /\ UNCHANGED <<THRESHOLD, tzOffset, clock, tick, current_date,
                   projected_cost, projected_spending, discord_response,
                   gotify_response, ntfy_response, result, ping,
                   prev_ping>>

\* ---------------------------------------- get_end_of_month_projection

projection_over_month(cost, date) ==
    LET days_in_month == monthrange(date[1], date[2])
        remaining_days == days_in_month - date[3]
    IN  <<FracMul(FracDiv(<<cost, 1>>, days_in_month), date[3]),
          FracMul(FracDiv(<<cost, 1>>, days_in_month), remaining_days)>>

\* (projected_cost, projected_spending) for a cost and the current date
projection(cost, date) ==
    LET days_in_month == monthrange(date[1], date[2])
        current_day_of_month == date[3]
        remaining_days == days_in_month - current_day_of_month
    IN  <<FracMul(FracDiv(<<cost, 1>>, date[3]), days_in_month),
          FracMul(FracDiv(<<cost, 1>>, date[3]), remaining_days)>>

\* main, lines 155-157
GetEndOfMonthProjection ==
    /\ pc = "fetched"
    /\ \E dt \in Elapsed :
          /\ current_date' = LocalToday(dt)
          /\ projected_cost' = projection(current_cost, LocalToday(dt))[1]
          /\ projected_spending' = projection(current_cost, LocalToday(dt))[2]
    /\ pc' = "projected"
    /\ trace' = Append(trace, "project")
    /\ UNCHANGED <<THRESHOLD, tzOffset, clock, tick, start, end, fetchFailed,
                   current_cost, discord_response, gotify_response,
                   ntfy_response, result, propagated,
                   ping, prev_ping>>

\* ------------------------------------------------------ notifications

\* The value of a response variable before its send was made.
Unsent == [ok |-> FALSE, status |-> "unsent"]

\* Each sender posts once; raise_for_status() turns a non-2xx answer into
\* an exception, and every exception becomes {"ok": False, "status":
\* "Failed"}.
send_discord_notification(outcome) ==
    IF outcome = "ok" THEN [ok |-> TRUE, status |-> "2xx"]
    ELSE [ok |-> FALSE, status |-> "Failed"]

send_gotify_notification(outcome) ==
    IF outcome = "ok" THEN [ok |-> TRUE, status |-> "2xx"]
    ELSE [ok |-> FALSE, status |-> "Failed"]

send_ntfy_notification(outcome) ==
    IF outcome = "ok" THEN [ok |-> TRUE, status |-> "2xx"]
    ELSE [ok |-> FALSE, status |-> "Failed"]

dispatch_until_failure(od, og, on) ==
    IF od # "ok"
    THEN [discord |-> send_discord_notification(od), gotify |-> Unsent,
          ntfy |-> Unsent, sent |-> <<"discord">>]
    ELSE IF og # "ok"
    THEN [discord |-> send_discord_notification(od),
          gotify |-> send_gotify_notification(og),
          ntfy |-> Unsent, sent |-> <<"discord", "gotify">>]
    ELSE [discord |-> send_discord_notification(od),
          gotify |-> send_gotify_notification(og),
          ntfy |-> send_ntfy_notification(on),
          sent |-> <<"discord", "gotify", "ntfy">>]

\* lines 131-133: the three sends, in this order, each made whatever the
\* others returned
dispatch(od, og, on) ==
    [discord |-> send_discord_notification(od),
     gotify |-> send_gotify_notification(og),
     ntfy |-> send_ntfy_notification(on),
     sent |-> <<"discord", "gotify", "ntfy">>]

WithinLimit_strict(p) == p[1] < THRESHOLD * p[2]

\* line 128: projected_cost <= THRESHOLD
WithinLimit(p) == FracLE(p, THRESHOLD)

AllSucceeded_any(d, g, n) == d.ok \/ g.ok \/ n.ok

\* line 134
AllSucceeded(d, g, n) == d.ok /\ g.ok /\ n.ok

\* main, line 162: the call check_threshold_exceeded(projected_cost)
CheckThresholdExceeded ==
    /\ pc = "projected"
    /\ IF WithinLimit(projected_cost)
       THEN /\ result' = "None"
            /\ trace' = Append(trace, "evaluate")
            /\ UNCHANGED <<discord_response, gotify_response, ntfy_response>>
       ELSE \E od \in Outcomes, og \in Outcomes, on \in Outcomes :
               LET r == dispatch(od, og, on)
               IN  /\ discord_response' = r.discord
                   /\ gotify_response' = r.gotify
                   /\ ntfy_response' = r.ntfy
                   /\ trace' = Append(trace, "evaluate") \o r.sent
                   /\ result' = IF AllSucceeded(r.discord, r.gotify, r.ntfy)
                                THEN "True" ELSE "False"
    /\ pc' = "checked"
    /\ UNCHANGED <<THRESHOLD, tzOffset, clock, tick, start, end, fetchFailed,
                   current_cost, current_date, projected_cost,
                   projected_spending, propagated, ping, prev_ping>>

\* not x, for the values check_threshold_exceeded returns
Not(x) == x \in {"None", "False"}

\* main, lines 162-163: if not ...: logger.info("No threshold exceeded.")
LogNoThreshold ==
    /\ pc = "checked"
    /\ trace' = IF Not(result) THEN Append(trace, "no_threshold_exceeded")
                ELSE trace
    /\ pc' = "logged"
    /\ UNCHANGED <<THRESHOLD, tzOffset, clock, tick, start, end, fetchFailed,
                   current_cost, current_date, projected_cost,
                   projected_spending, discord_response, gotify_response,
                   ntfy_response, result, propagated,
                   ping, prev_ping>>

\* ------------------------------------------------------- health check

healthcheck_unguarded(outcome) == [raised |-> outcome = "RequestException"]

\* lines 164-167: a RequestException is logged and swallowed
healthcheck(outcome) == [raised |-> FALSE]

HealthCheck ==
    /\ pc = "logged"
    /\ \E outcome \in PingOutcomes :
          /\ propagated' = healthcheck(outcome).raised
          /\ ping' = outcome
          /\ trace' = Append(trace, "healthcheck")
    /\ pc' = "done"
    /\ UNCHANGED <<THRESHOLD, tzOffset, clock, tick, start, end, fetchFailed,
                   current_cost, current_date, projected_cost,
                   projected_spending, discord_response, gotify_response,
                   ntfy_response, result, prev_ping>>

\* ---------------------------------------------------------- scheduler

\* @app.task(every(INTERVAL_SCHEDULE)): the next run of main, one day
\* later; main's locals start afresh, nothing of the previous run is kept.
Scheduler ==
    /\ pc = "done"
    /\ tick < MaxTicks
    /\ tick' = tick + 1
    /\ clock' = [clock EXCEPT !.date = AddDays(clock.date, 1)]
    /\ pc' = "start"
    /\ start' = "none" /\ end' = "none"
    /\ fetchFailed' = FALSE
    /\ current_cost' = "none" /\ current_date' = "none"
    /\ projected_cost' = "none" /\ projected_spending' = "none"
    /\ discord_response' = Unsent /\ gotify_response' = Unsent
    /\ ntfy_response' = Unsent
    /\ result' = "none"
    /\ propagated' = FALSE
    /\ ping' = "none"
    /\ prev_ping' = ping
    /\ trace' = <<>>
    /\ UNCHANGED <<THRESHOLD, tzOffset>>

Init ==
    /\ THRESHOLD \in Thresholds
    /\ tzOffset \in TzOffsets
    /\ clock \in [date : {StartDate}, hour : Hours]
    /\ tick = 0
    /\ pc = "start"
    /\ start = "none" /\ end = "none"
    /\ fetchFailed = FALSE
    /\ current_cost = "none" /\ current_date = "none"
    /\ projected_cost = "none" /\ projected_spending = "none"
    /\ discord_response = Unsent /\ gotify_response = Unsent
    /\ ntfy_response = Unsent
    /\ result = "none"
    /\ propagated = FALSE
    /\ ping = "none"
    /\ prev_ping = "none"
    /\ trace = <<>>

Next ==
    \/ GetCurrentCosts
    \/ GetEndOfMonthProjection
    \/ CheckThresholdExceeded
    \/ LogNoThreshold
    \/ HealthCheck
    \/ Scheduler

Spec == Init /\ [][Next]_vars

\* ------------------------------------------------------------ claims

Channels == {"discord", "gotify", "ntfy"}

\* How often event e stands in the tick's trace.
Count(e) == Cardinality({i \in DOMAIN trace : trace[i] = e})

\* Place of the first e in the trace, 0 when there is none.
Place(e) ==
    IF Count(e) = 0 THEN 0
    ELSE CHOOSE i \in DOMAIN trace :
            trace[i] = e /\ \A j \in DOMAIN trace : trace[j] = e => i <= j

\* Number of notification sends attempted in the tick.
Sends == Cardinality({i \in DOMAIN trace : trace[i] \in Channels})

Projected == pc \in {"projected", "checked", "logged", "done"} /\ ~propagated

Evaluated == pc \in {"checked", "logged", "done"} /\ ~propagated

\* The fraction 0.
Zero == <<0, 1>>

\* projectedTotalCost > threshold
Exceeded == projected_cost[1] > THRESHOLD * projected_cost[2]

\* C1: when the threshold is exceeded, Discord, Gotify and Ntfy each get
\* exactly one send attempt in the tick, whatever the other sends ended in.
C1_EachChannelOnce ==
    (Evaluated /\ Exceeded) =>
        /\ \A ch \in Channels : Count(ch) = 1
        /\ discord_response # Unsent
        /\ gotify_response # Unsent
        /\ ntfy_response # Unsent

\* The first send failed and the two others were still made, once each.
C1_Witness ==
    /\ pc = "checked" /\ Exceeded
    /\ ~discord_response.ok /\ ~gotify_response.ok /\ ntfy_response.ok
    /\ Count("discord") = 1 /\ Count("gotify") = 1 /\ Count("ntfy") = 1

\* C2: a tick sends notifications if and only if the projection is
\* strictly greater than the threshold; at or below it, nothing is sent.
C2_DispatchIffExceeded ==
    Evaluated =>
        /\ (Sends > 0) <=> Exceeded
        /\ ~Exceeded => /\ \A ch \in Channels : Count(ch) = 0
                        /\ discord_response = Unsent
                        /\ gotify_response = Unsent
                        /\ ntfy_response = Unsent
                        /\ result = "None"

\* The projection equals a positive threshold and nothing was sent.
C2_Witness ==
    /\ pc = "checked"
    /\ THRESHOLD > 0
    /\ projected_cost = <<THRESHOLD, 1>>
    /\ Sends = 0

\* C3: a failure of the billing call is caught where it is made: the
\* cost of the tick is 0, nothing leaves main, and the tick goes on to
\* project, evaluate the threshold and ping the health check.
C3_FetchFailureIsSurvived ==
    fetchFailed =>
        /\ ~propagated
        /\ current_cost = 0
        /\ pc = "done" => /\ Count("project") = 1
                          /\ Count("evaluate") = 1
                          /\ Count("healthcheck") = 1
                          /\ Place("fetch") < Place("project")
                          /\ Place("project") < Place("evaluate")
                          /\ Place("evaluate") < Place("healthcheck")

\* A tick whose billing call failed ran to its health check.
C3_Witness ==
    /\ pc = "done" /\ fetchFailed /\ current_cost = 0
    /\ trace[Len(trace)] = "healthcheck"

\* C4 as stated: when the fetch fails the projection is zero and nothing
\* is sent, for every threshold.
C4_NoAlertOnFetchFailure ==
    (Evaluated /\ fetchFailed) =>
        /\ projected_cost = Zero
        /\ projected_spending = Zero
        /\ Sends = 0

\* C4 as amended: when the fetch fails the projection is zero; nothing is
\* sent provided the threshold is not negative.
C4_NoAlertOnFetchFailureNonNegative ==
    (Evaluated /\ fetchFailed) =>
        /\ projected_cost = Zero
        /\ projected_spending = Zero
        /\ THRESHOLD >= 0 => Sends = 0

\* The fetch failed under a threshold of zero and nothing was sent.
C4_Witness ==
    /\ pc = "checked" /\ fetchFailed
    /\ THRESHOLD = 0
    /\ projected_cost = Zero
    /\ Sends = 0

\* C5: check_threshold_exceeded returns True exactly when all three
\* channels report success, and False as soon as one of them fails.
C5_AllSucceeded ==
    (Evaluated /\ Exceeded) =>
        /\ result \in {"True", "False"}
        /\ result = "True" <=>
              (discord_response.ok /\ gotify_response.ok /\ ntfy_response.ok)
        /\ result = "False" <=>
              (~discord_response.ok \/ ~gotify_response.ok \/ ~ntfy_response.ok)

\* Only the last channel failed and the outcome is False.
C5_Witness ==
    /\ pc = "checked" /\ Exceeded
    /\ discord_response.ok /\ gotify_response.ok /\ ~ntfy_response.ok
    /\ result = "False"

\* C6: with d the day of the month and n the length of the month,
\* 1 <= d <= n, projected_cost = (cost / d) * n and projected_spending =
\* (cost / d) * (n - d); 620.00 on day 10 of 30 gives 1860.00 and 1240.00.
C6_Projection ==
    Projected =>
        LET d == current_date[3]
            n == monthrange(current_date[1], current_date[2])
        IN  /\ d >= 1 /\ d <= n
            /\ projected_cost[2] > 0 /\ projected_spending[2] > 0
            /\ projected_cost[1] * d = current_cost * n * projected_cost[2]
            /\ projected_spending[1] * d
                  = current_cost * (n - d) * projected_spending[2]
            /\ (current_cost = 62000 /\ d = 10 /\ n = 30) =>
                  /\ projected_cost = <<186000, 1>>
                  /\ projected_spending = <<124000, 1>>

\* 620.00 on day 10 of a 30-day month was projected.
C6_Witness ==
    /\ pc = "projected"
    /\ current_cost = 62000
    /\ current_date = <<2023, 11, 10>>
    /\ projected_cost = <<186000, 1>>
    /\ projected_spending = <<124000, 1>>

\* C7: every tick pings the health check exactly once, as its last step,
\* after the fetch, the projection, the evaluation and all the sends; a
\* failed ping leaves nothing behind: no exception, and the next tick
\* starts all the same, from a fresh state.
C7_HealthCheckLast ==
    /\ pc # "done" => Count("healthcheck") = 0 /\ ping = "none"
    /\ pc = "done" =>
          /\ ~propagated
          /\ ping # "none"
          /\ Count("healthcheck") = 1
          /\ trace[Len(trace)] = "healthcheck"
          /\ Count("fetch") = 1 /\ Count("project") = 1
          /\ Count("evaluate") = 1
          /\ Place("fetch") < Place("project")
          /\ Place("project") < Place("evaluate")
          /\ Exceeded => \A ch \in Channels : Count(ch) = 1
          /\ tick < MaxTicks => ENABLED Scheduler
    /\ pc = "start" =>
          /\ trace = <<>>
          /\ ~propagated /\ ~fetchFailed
          /\ current_cost = "none" /\ projected_cost = "none"
          /\ result = "none"

\* After a tick whose ping failed, the next tick ran to its own ping, which
\* was made although that tick's notifications failed.
C7_Witness ==
    /\ pc = "done"
    /\ prev_ping = "RequestException"
    /\ ping = "RequestException"
    /\ result = "False"
    /\ trace[Len(trace)] = "healthcheck"

\* C8: the query window starts on the first of today's month and ends
\* today, or on the day after when today is the first; start < end.
C8_QueryWindow ==
    pc # "start" =>
        LET today == clock.date
        IN  /\ start = <<today[1], today[2], 1>>
            /\ end = IF today[3] = 1 THEN <<today[1], today[2], 2>> ELSE today
            /\ (end # today) <=> (start = today)
            /\ start # end
            /\ DateGE(end, start)

\* On the first of a month the window was widened to the second.
C8_Witness ==
    /\ pc = "fetched"
    /\ clock.date[3] = 1
    /\ start = clock.date
    /\ end = AddDays(clock.date, 1)

\* C9: "No threshold exceeded." is logged if and only if the projection is
\* within the limit; never in a tick where the threshold is exceeded.
C9_NoThresholdLogIffWithinLimit ==
    (pc \in {"logged", "done"} /\ ~propagated) =>
        ((Count("no_threshold_exceeded") > 0) <=> ~Exceeded)

\* C10: the date that drives the projection is the date from which the
\* query window of the same tick was built.
C10_SameDate ==
    Projected =>
        /\ current_date = clock.date
        /\ start = <<current_date[1], current_date[2], 1>>

====
